---- MODULE Spec2Model ----
(***************************************************************************)
(* N-body gravitational physics system (Physics, Object, BlackHole).       *)
(*                                                                         *)
(* glm::vec3 is a triple of integers and float/double arithmetic is        *)
(* integer arithmetic that rounds toward zero: lengths are rounded to the  *)
(* grid (ISqrt), a quotient is truncated.  The physical constants are      *)
(* expressed in grid units (G = 900, c = 30), so that the default black    *)
(* hole has a Schwarzschild radius of 10 grid units.                       *)
(***************************************************************************)
EXTENDS Integers, Sequences, FiniteSets, TLC

(***************************************************************************)
(* Bounds of the model.                                                    *)
(***************************************************************************)
\* calls of addObject in one behaviour of Spec and of SpecUse (SpecCap does not
\* bound them)
MaxAdds == 2
\* calls of update with deltaTime > 0 in one behaviour
MaxUpdates == 2
\* key events waiting in the queue of the window system
MaxPending == 2
\* calls of update with deltaTime > 0 in one behaviour of SpecTrail
MaxTrail == 102
\* calls of addObject in one behaviour of SpecOrder
MaxLoads == 15

(***************************************************************************)
(* Program constants.                                                      *)
(***************************************************************************)
\* BlackHole::G, and the default of physics.gravityConstant, in grid units
G == 900
\* BlackHole::c in grid units
c == 30
\* default of blackHole.mass in grid units
DefaultBlackHoleMass == 5
\* "Limit for GPU uniform buffer" in Physics::addObject
MaxObjects == 16
\* Object::m_maxHistorySize
MaxHistorySize == 100

(***************************************************************************)
(* glm::vec3                                                               *)
(***************************************************************************)
Zero3 == <<0, 0, 0>>

VecAdd(a, b) == <<a[1] + b[1], a[2] + b[2], a[3] + b[3]>>

VecSub(a, b) == <<a[1] - b[1], a[2] - b[2], a[3] - b[3]>>

VecNeg(a) == <<0 - a[1], 0 - a[2], 0 - a[3]>>

VecScale(a, k) == <<a[1] * k, a[2] * k, a[3] * k>>

Dot(a, b) == a[1] * b[1] + a[2] * b[2] + a[3] * b[3]

Abs(x) == IF x < 0 THEN 0 - x ELSE x

\* a quotient rounded toward zero
TruncDiv(a, b) == IF (a < 0) = (b < 0) THEN Abs(a) \div Abs(b) ELSE 0 - (Abs(a) \div Abs(b))

VecDiv(a, k) == <<TruncDiv(a[1], k), TruncDiv(a[2], k), TruncDiv(a[3], k)>>

\* the square root, rounded down
RECURSIVE ISqrt(_)
ISqrt(n) ==
    IF n < 2 THEN n
    ELSE LET s == 2 * ISqrt(n \div 4)
         IN  IF (s + 1) * (s + 1) > n THEN s ELSE s + 1

\* glm::length
Length(a) == ISqrt(Dot(a, a))

\* glm::normalize(displacement) * static_cast<float>(magnitude)
Directed(displacement, magnitude) == VecDiv(VecScale(displacement, magnitude), Length(displacement))

(***************************************************************************)
(* Object                                                                  *)
(***************************************************************************)
\* Object::Object: a body as its constructor leaves it
Object(position, velocity, mass, radius, name) ==
    [position |-> position, velocity |-> velocity, acceleration |-> Zero3,
     mass |-> mass, radius |-> radius, name |-> name, active |-> TRUE,
     forceSum |-> Zero3, positionHistory |-> <<position>>]

\* Object::setActive
SetActive(o, active) == [o EXCEPT !.active = active]

\* Object::setVelocity
SetVelocity(o, velocity) == [o EXCEPT !.velocity = velocity]

\* Object::applyForce
ApplyForce(o, force) == [o EXCEPT !.forceSum = VecAdd(o.forceSum, force)]

\* Object::resetForces
ResetForces(o) == [o EXCEPT !.forceSum = Zero3]

\* Object::updateHistory evicting the newest position when the history is full
UpdateHistory_evictsNewest(o) ==
    LET pushed == Append(o.positionHistory, o.position)
    IN  [o EXCEPT !.positionHistory =
            IF Len(pushed) > MaxHistorySize THEN o.positionHistory ELSE pushed]

\* Object::updateHistory
UpdateHistory(o) ==
    LET pushed == Append(o.positionHistory, o.position)
    IN  [o EXCEPT !.positionHistory =
            IF Len(pushed) > MaxHistorySize THEN Tail(pushed) ELSE pushed]

\* Object::updatePhysics leaving the accumulated force in place
UpdatePhysics_keepsForces(o, deltaTime) ==
    IF ~o.active \/ deltaTime <= 0 THEN o
    ELSE LET a == IF o.mass > 0 THEN VecDiv(o.forceSum, o.mass) ELSE Zero3
             v == VecAdd(o.velocity, VecScale(a, deltaTime))
             x == VecAdd(o.position, VecScale(v, deltaTime))
         IN  UpdateHistory([o EXCEPT !.acceleration = a, !.velocity = v, !.position = x])

\* Object::updatePhysics without the branch for mass <= 0: a massless body takes
\* the accumulated force as its acceleration
UpdatePhysics_pushesMassless(o, deltaTime) ==
    IF ~o.active \/ deltaTime <= 0 THEN o
    ELSE LET a == IF o.mass > 0 THEN VecDiv(o.forceSum, o.mass) ELSE o.forceSum
             v == VecAdd(o.velocity, VecScale(a, deltaTime))
             x == VecAdd(o.position, VecScale(v, deltaTime))
         IN  ResetForces(UpdateHistory(
                 [o EXCEPT !.acceleration = a, !.velocity = v, !.position = x]))

\* Object::updatePhysics advancing the position with the velocity the body had
\* before the step
UpdatePhysics_oldVelocity(o, deltaTime) ==
    IF ~o.active \/ deltaTime <= 0 THEN o
    ELSE LET a == IF o.mass > 0 THEN VecDiv(o.forceSum, o.mass) ELSE Zero3
             v == VecAdd(o.velocity, VecScale(a, deltaTime))
             x == VecAdd(o.position, VecScale(o.velocity, deltaTime))
         IN  ResetForces(UpdateHistory(
                 [o EXCEPT !.acceleration = a, !.velocity = v, !.position = x]))

\* Object::updatePhysics
UpdatePhysics(o, deltaTime) ==
    IF ~o.active \/ deltaTime <= 0 THEN o
    ELSE LET a == IF o.mass > 0 THEN VecDiv(o.forceSum, o.mass) ELSE Zero3
             v == VecAdd(o.velocity, VecScale(a, deltaTime))
             x == VecAdd(o.position, VecScale(v, deltaTime))
         IN  ResetForces(UpdateHistory(
                 [o EXCEPT !.acceleration = a, !.velocity = v, !.position = x]))

\* Object::getDistanceTo
GetDistanceTo(o, other) == Length(VecSub(other.position, o.position))

\* Object::isCollidingWith
IsCollidingWith(o, other) ==
    IF ~o.active \/ ~other.active THEN FALSE
    ELSE GetDistanceTo(o, other) <= o.radius + other.radius

(***************************************************************************)
(* BlackHole                                                               *)
(***************************************************************************)
\* BlackHole::updateSchwarzschildRadius
UpdateSchwarzschildRadius(bh) ==
    [bh EXCEPT !.schwarzschildRadius = (2 * G * bh.mass) \div (c * c)]

\* BlackHole::BlackHole
BlackHole(position, mass) ==
    UpdateSchwarzschildRadius([position |-> position, mass |-> mass, schwarzschildRadius |-> 0])

\* BlackHole::setMass without the call of updateSchwarzschildRadius
SetMass_stale(bh, mass) == [bh EXCEPT !.mass = mass]

\* BlackHole::setMass
SetMass(bh, mass) == UpdateSchwarzschildRadius([bh EXCEPT !.mass = mass])

\* BlackHole::getSchwarzschildRadius
GetSchwarzschildRadius(bh) == bh.schwarzschildRadius

\* BlackHole::getPhotonSphereRadius: the radius * 1.5
GetPhotonSphereRadius(bh) == TruncDiv(bh.schwarzschildRadius * 3, 2)

\* BlackHole::getISCORadius: the radius * 3.0
GetISCORadius(bh) == bh.schwarzschildRadius * 3

\* BlackHole::getGravitationalAcceleration returning the zero vector at
\* 0.1 * the horizon radius too
GetGravitationalAcceleration_hardCutoff(bh, point) ==
    LET r_vec == VecSub(point, bh.position)
        r == Length(r_vec)
    IN  IF 10 * r <= bh.schwarzschildRadius THEN Zero3
        ELSE Directed(VecNeg(r_vec), (G * bh.mass) \div (r * r))

\* BlackHole::getGravitationalAcceleration
GetGravitationalAcceleration(bh, point) ==
    LET r_vec == VecSub(point, bh.position)
        r == Length(r_vec)
    IN  \* r < m_schwarzschildRadius * 0.1
        IF 10 * r < bh.schwarzschildRadius THEN Zero3
        ELSE Directed(VecNeg(r_vec), (G * bh.mass) \div (r * r))

\* BlackHole::isInsideEventHorizon
IsInsideEventHorizon(bh, point) ==
    Length(VecSub(point, bh.position)) <= bh.schwarzschildRadius

(***************************************************************************)
(* Physics: the phases of a step, as functions of the body collection      *)
(***************************************************************************)
\* the (i, j) the loops "for i; for j = i + 1" visit, in the order they visit them
RECURSIVE PairsFrom(_, _)
PairsFrom(n, i) ==
    IF i >= n THEN <<>>
    ELSE [k \in 1..(n - i) |-> <<i, i + k>>] \o PairsFrom(n, i + 1)

PairOrder(n) == PairsFrom(n, 1)

\* the inner loop's body applying the force to obj1 only
ForcePair_oneSided(objs, i, j, mG) ==
    IF ~objs[i].active \/ ~objs[j].active THEN objs
    ELSE LET displacement == VecSub(objs[j].position, objs[i].position)
             distance == Length(displacement)
         IN  IF distance > 0
             THEN LET forceMagnitude ==
                          (mG * objs[i].mass * objs[j].mass) \div (distance * distance)
                      force == Directed(displacement, forceMagnitude)
                  IN  [objs EXCEPT ![i] = ApplyForce(objs[i], force)]
             ELSE objs

\* the body of the inner loop of Physics::calculateGravitationalForces
ForcePair(objs, i, j, mG) ==
    IF ~objs[i].active \/ ~objs[j].active THEN objs
    ELSE LET displacement == VecSub(objs[j].position, objs[i].position)
             distance == Length(displacement)
         IN  IF distance > 0
             THEN LET forceMagnitude ==
                          (mG * objs[i].mass * objs[j].mass) \div (distance * distance)
                      force == Directed(displacement, forceMagnitude)
                  IN  [objs EXCEPT ![i] = ApplyForce(objs[i], force),
                                   ![j] = ApplyForce(objs[j], VecNeg(force))]
             ELSE objs

\* the collection after the pairs lo..hi, taken in order
RECURSIVE ForcesBetween(_, _, _, _, _)
ForcesBetween(objs, pairs, lo, hi, mG) ==
    IF objs = <<>> \/ lo > hi THEN objs
    ELSE IF lo = hi THEN ForcePair(objs, pairs[lo][1], pairs[lo][2], mG)
    ELSE LET mid == (lo + hi) \div 2
         IN  ForcesBetween(ForcesBetween(objs, pairs, lo, mid, mG), pairs, mid + 1, hi, mG)

\* the collection after the first k of the pairs
ForcesAfter(objs, pairs, k, mG) == ForcesBetween(objs, pairs, 1, k, mG)

\* Physics::calculateGravitationalForces
CalculateGravitationalForces(objs, mG) ==
    LET pairs == PairOrder(Len(objs)) IN ForcesAfter(objs, pairs, Len(pairs), mG)

\* the loop's body applying the force at the minimum distance too
BlackHoleForce_closed(o, bh, mG) ==
    IF ~o.active THEN o
    ELSE LET displacement == VecSub(bh.position, o.position)
             distance == Length(displacement)
         IN  \* distance >= getSchwarzschildRadius() * 0.1
             IF 10 * distance >= bh.schwarzschildRadius
             THEN LET forceMagnitude == (mG * bh.mass * o.mass) \div (distance * distance)
                  IN  ApplyForce(o, Directed(displacement, forceMagnitude))
             ELSE o

\* the body of the loop of Physics::applyBlackHoleGravity
BlackHoleForce(o, bh, mG) ==
    IF ~o.active THEN o
    ELSE LET displacement == VecSub(bh.position, o.position)
             distance == Length(displacement)
         IN  \* distance > getSchwarzschildRadius() * 0.1
             IF 10 * distance > bh.schwarzschildRadius
             THEN LET forceMagnitude == (mG * bh.mass * o.mass) \div (distance * distance)
                  IN  ApplyForce(o, Directed(displacement, forceMagnitude))
             ELSE o

\* Physics::applyBlackHoleGravity
ApplyBlackHoleGravity(objs, bh, mG) == [k \in DOMAIN objs |-> BlackHoleForce(objs[k], bh, mG)]

\* Physics::IntegrationMethod
IntegrationMethods == {"EULER", "LEAPFROG", "RK4"}

\* Physics::integrateEuler
IntegrateEuler(objs, deltaTime) == objs

\* Physics::integrateLeapfrog with a kick of its own: every active body with mass
\* gains acceleration * deltaTime before the per-body advance
IntegrateLeapfrog_kicking(objs, deltaTime) ==
    [k \in DOMAIN objs |->
        IF objs[k].active /\ objs[k].mass > 0
        THEN SetVelocity(objs[k],
                 VecAdd(objs[k].velocity,
                        VecScale(VecDiv(objs[k].forceSum, objs[k].mass), deltaTime)))
        ELSE objs[k]]

\* Physics::integrateLeapfrog
IntegrateLeapfrog(objs, deltaTime) == IntegrateEuler(objs, deltaTime)

\* Physics::integrateRK4
IntegrateRK4(objs, deltaTime) == IntegrateEuler(objs, deltaTime)

\* Physics::integrateMotion
IntegrateMotion(objs, method, deltaTime) ==
    CASE method = "EULER" -> IntegrateEuler(objs, deltaTime)
      [] method = "LEAPFROG" -> IntegrateLeapfrog(objs, deltaTime)
      [] method = "RK4" -> IntegrateRK4(objs, deltaTime)

\* the inner loop's body comparing the masses with >: the first body loses a tie
CollidePair_strict(objs, i, j) ==
    IF ~objs[i].active THEN objs
    ELSE IF ~objs[j].active THEN objs
    ELSE IF IsCollidingWith(objs[i], objs[j])
         THEN IF objs[i].mass > objs[j].mass
              THEN [objs EXCEPT ![j] = SetActive(objs[j], FALSE)]
              ELSE [objs EXCEPT ![i] = SetActive(objs[i], FALSE)]
         ELSE objs

\* the inner loop's body merging the mass of the absorbed body into the survivor
CollidePair_merging(objs, i, j) ==
    IF ~objs[i].active THEN objs
    ELSE IF ~objs[j].active THEN objs
    ELSE IF IsCollidingWith(objs[i], objs[j])
         THEN IF objs[i].mass >= objs[j].mass
              THEN [objs EXCEPT ![j] = SetActive(objs[j], FALSE),
                                ![i].mass = objs[i].mass + objs[j].mass]
              ELSE [objs EXCEPT ![i] = SetActive(objs[i], FALSE),
                                ![j].mass = objs[i].mass + objs[j].mass]
         ELSE objs

\* the inner loop's body in which the lighter body absorbs the heavier one
CollidePair_lighterWins(objs, i, j) ==
    IF ~objs[i].active THEN objs
    ELSE IF ~objs[j].active THEN objs
    ELSE IF IsCollidingWith(objs[i], objs[j])
         THEN IF objs[i].mass <= objs[j].mass
              THEN [objs EXCEPT ![j] = SetActive(objs[j], FALSE)]
              ELSE [objs EXCEPT ![i] = SetActive(objs[i], FALSE)]
         ELSE objs

\* the body of the inner loop of Physics::handleCollisions, with the "continue"
\* of the two loops. The code tests obj1 once, when its row starts; an obj1
\* deactivated within its row fails the test of isCollidingWith in the rest of
\* the row, so testing it at each pair gives the same collection.
CollidePair(objs, i, j) ==
    IF ~objs[i].active THEN objs
    ELSE IF ~objs[j].active THEN objs
    ELSE IF IsCollidingWith(objs[i], objs[j])
         THEN IF objs[i].mass >= objs[j].mass
              THEN [objs EXCEPT ![j] = SetActive(objs[j], FALSE)]
              ELSE [objs EXCEPT ![i] = SetActive(objs[i], FALSE)]
         ELSE objs

\* the collection after the pairs lo..hi, taken in order
RECURSIVE CollisionsBetween(_, _, _, _)
CollisionsBetween(objs, pairs, lo, hi) ==
    IF objs = <<>> \/ lo > hi THEN objs
    ELSE IF lo = hi THEN CollidePair(objs, pairs[lo][1], pairs[lo][2])
    ELSE LET mid == (lo + hi) \div 2
         IN  CollisionsBetween(CollisionsBetween(objs, pairs, lo, mid), pairs, mid + 1, hi)

\* the collection after the first k of the pairs
CollisionsAfter(objs, pairs, k) == CollisionsBetween(objs, pairs, 1, k)

\* handleCollisions comparing each body with the next one only
HandleCollisions_neighbours(objs) ==
    LET pairs == SelectSeq(PairOrder(Len(objs)), LAMBDA p : p[2] = p[1] + 1)
    IN  CollisionsAfter(objs, pairs, Len(pairs))

\* Physics::handleCollisions
HandleCollisions(objs) ==
    LET pairs == PairOrder(Len(objs)) IN CollisionsAfter(objs, pairs, Len(pairs))

\* erase by moving the last element into the erased slot
Erase_swapPop(objs, it) ==
    [k \in 1..(Len(objs) - 1) |-> IF k = it THEN objs[Len(objs)] ELSE objs[k]]

\* std::vector::erase(begin() + (it - 1))
Erase(objs, it) == [k \in 1..(Len(objs) - 1) |-> IF k < it THEN objs[k] ELSE objs[k + 1]]

\* the loop of Physics::removeSwallowedObjects, from iterator position it
RECURSIVE RemoveFrom(_, _, _)
RemoveFrom(objs, it, bh) ==
    IF it > Len(objs) THEN objs
    ELSE IF objs[it].active /\ IsInsideEventHorizon(bh, objs[it].position)
         THEN RemoveFrom(Erase(objs, it), it, bh)
    ELSE IF ~objs[it].active
         THEN RemoveFrom(Erase(objs, it), it, bh)
    ELSE RemoveFrom(objs, it + 1, bh)

\* removeSwallowedObjects advancing the iterator past the element that follows
\* an erased one
RECURSIVE RemoveFrom_skipping(_, _, _)
RemoveFrom_skipping(objs, it, bh) ==
    IF it > Len(objs) THEN objs
    ELSE IF objs[it].active /\ IsInsideEventHorizon(bh, objs[it].position)
         THEN RemoveFrom_skipping(Erase(objs, it), it + 1, bh)
    ELSE IF ~objs[it].active
         THEN RemoveFrom_skipping(Erase(objs, it), it + 1, bh)
    ELSE RemoveFrom_skipping(objs, it + 1, bh)

RemoveSwallowedObjects_skipping(objs, bh) == RemoveFrom_skipping(objs, 1, bh)

\* removeSwallowedObjects erasing only the active bodies inside the horizon
RemoveSwallowedObjects_horizonOnly(objs, bh) ==
    SelectSeq(objs, LAMBDA o : ~(o.active /\ IsInsideEventHorizon(bh, o.position)))

\* Physics::removeSwallowedObjects
RemoveSwallowedObjects(objs, bh) == RemoveFrom(objs, 1, bh)

\* the closing loop of Physics::update advancing every body twice
UpdateAll_twice(objs, deltaTime) ==
    [k \in DOMAIN objs |-> UpdatePhysics(UpdatePhysics(objs[k], deltaTime), deltaTime)]

\* the loop "for (auto& object : m_objects) object.updatePhysics(deltaTime)"
UpdateAll(objs, deltaTime) == [k \in DOMAIN objs |-> UpdatePhysics(objs[k], deltaTime)]

(***************************************************************************)
(* Energy                                                                  *)
(***************************************************************************)
\* Object::getKineticEnergy
Object_GetKineticEnergy(o) ==
    IF o.mass <= 0 THEN 0 ELSE TruncDiv(o.mass * Dot(o.velocity, o.velocity), 2)

\* the loop of Physics::getKineticEnergy from body i on
RECURSIVE KineticFrom(_, _)
KineticFrom(objs, i) ==
    IF i > Len(objs) THEN 0
    ELSE (IF objs[i].active THEN Object_GetKineticEnergy(objs[i]) ELSE 0)
         + KineticFrom(objs, i + 1)

\* Physics::getKineticEnergy
GetKineticEnergy(objs) == KineticFrom(objs, 1)

\* what Physics::getPotentialEnergy subtracts for a body and the black hole
CentralEnergy(o, bh, mG) ==
    LET distance == Length(VecSub(o.position, bh.position))
    IN  IF distance > 0 THEN TruncDiv(mG * bh.mass * o.mass, distance) ELSE 0

\* what Physics::getPotentialEnergy subtracts for a pair of bodies
PairEnergy(o, other, mG) ==
    LET distance == GetDistanceTo(o, other)
    IN  IF distance > 0 THEN TruncDiv(mG * o.mass * other.mass, distance) ELSE 0

\* the inner loop of Physics::getPotentialEnergy for body i, from body j on
RECURSIVE PairEnergyFrom(_, _, _, _)
PairEnergyFrom(objs, i, j, mG) ==
    IF j > Len(objs) THEN 0
    ELSE (IF objs[j].active THEN PairEnergy(objs[i], objs[j], mG) ELSE 0)
         + PairEnergyFrom(objs, i, j + 1, mG)

\* the outer loop of Physics::getPotentialEnergy from body i on
RECURSIVE PotentialFrom(_, _, _, _)
PotentialFrom(objs, bh, mG, i) ==
    IF i > Len(objs) THEN 0
    ELSE (IF objs[i].active
          THEN 0 - CentralEnergy(objs[i], bh, mG) - PairEnergyFrom(objs, i, i + 1, mG)
          ELSE 0)
         + PotentialFrom(objs, bh, mG, i + 1)

\* Physics::getPotentialEnergy counting the inactive bodies too
GetPotentialEnergy_countsInactive(objs, bh, mG) ==
    PotentialFrom([k \in DOMAIN objs |-> SetActive(objs[k], TRUE)], bh, mG, 1)

\* Physics::getPotentialEnergy
GetPotentialEnergy(objs, bh, mG) == PotentialFrom(objs, bh, mG, 1)

\* Physics::getTotalEnergy
GetTotalEnergy(objs, bh, mG) == GetKineticEnergy(objs) + GetPotentialEnergy(objs, bh, mG)

(***************************************************************************)
(* Physics: state                                                          *)
(***************************************************************************)
VARIABLES
    m_objects,            \* std::vector<Object>
    m_blackHole,          \* BlackHole
    m_gravityEnabled,     \* bool
    m_integrationMethod,  \* IntegrationMethod
    m_simulationTime,     \* double
    m_stepCount,          \* size_t
    updates,              \* history: calls of update with deltaTime > 0 so far
    adds,                 \* history: calls of addObject so far, counted under Spec
    last,                 \* history: the last call, and the phases of the last step
    frame                 \* Engine: the place in the frame loop, the key events queued
                          \* by the window system, and what the renderer uploaded

physics == <<m_objects, m_blackHole, m_gravityEnabled, m_integrationMethod,
             m_simulationTime, m_stepCount>>

vars == <<m_objects, m_blackHole, m_gravityEnabled, m_integrationMethod,
          m_simulationTime, m_stepCount, updates, adds, last, frame>>

\* Physics::m_G, read from physics.gravityConstant with the default G
m_G == G

\* the phases of a step that removes swallowed bodies whatever the gravity flag
StepPhases_alwaysCulls(objs, bh, gravityEnabled, method, deltaTime) ==
    LET forces == IF gravityEnabled THEN CalculateGravitationalForces(objs, m_G) ELSE objs
        central == IF gravityEnabled THEN ApplyBlackHoleGravity(forces, bh, m_G) ELSE objs
        integrated == IF gravityEnabled THEN IntegrateMotion(central, method, deltaTime)
                      ELSE objs
        collided == IF gravityEnabled THEN HandleCollisions(integrated) ELSE objs
        removed == RemoveSwallowedObjects(collided, bh)
    IN  [pre |-> objs, forces |-> forces, central |-> central,
         integrated |-> integrated, collided |-> collided, removed |-> removed,
         post |-> UpdateAll(removed, deltaTime)]

\* the phases of a step that removes swallowed bodies before it handles collisions
StepPhases_cullsFirst(objs, bh, gravityEnabled, method, deltaTime) ==
    IF gravityEnabled
    THEN LET forces == CalculateGravitationalForces(objs, m_G)
             central == ApplyBlackHoleGravity(forces, bh, m_G)
             integrated == IntegrateMotion(central, method, deltaTime)
             removed == RemoveSwallowedObjects(integrated, bh)
             collided == HandleCollisions(removed)
         IN  [pre |-> objs, forces |-> forces, central |-> central,
              integrated |-> integrated, collided |-> collided, removed |-> removed,
              post |-> UpdateAll(collided, deltaTime)]
    ELSE [pre |-> objs, forces |-> objs, central |-> objs, integrated |-> objs,
          collided |-> objs, removed |-> objs, post |-> UpdateAll(objs, deltaTime)]

\* the phases of Physics::update for deltaTime > 0: the collection after each call
\* it makes, in the order it makes them
StepPhases(objs, bh, gravityEnabled, method, deltaTime) ==
    IF gravityEnabled
    THEN LET forces == CalculateGravitationalForces(objs, m_G)
             central == ApplyBlackHoleGravity(forces, bh, m_G)
             integrated == IntegrateMotion(central, method, deltaTime)
             collided == HandleCollisions(integrated)
             removed == RemoveSwallowedObjects(collided, bh)
         IN  [pre |-> objs, forces |-> forces, central |-> central,
              integrated |-> integrated, collided |-> collided, removed |-> removed,
              post |-> UpdateAll(removed, deltaTime)]
    ELSE [pre |-> objs, forces |-> objs, central |-> objs, integrated |-> objs,
          collided |-> objs, removed |-> objs, post |-> UpdateAll(objs, deltaTime)]

(***************************************************************************)
(* Physics: operations                                                     *)
(***************************************************************************)
\* Physics::update returning only for deltaTime < 0
Update_zeroSteps(deltaTime) ==
    IF deltaTime < 0
    THEN UNCHANGED physics
    ELSE /\ m_simulationTime' = m_simulationTime + deltaTime
         /\ m_stepCount' = m_stepCount + 1
         /\ m_objects' = IF deltaTime > 0
                         THEN StepPhases(m_objects, m_blackHole, m_gravityEnabled,
                                         m_integrationMethod, deltaTime).post
                         ELSE m_objects
         /\ UNCHANGED <<m_blackHole, m_gravityEnabled, m_integrationMethod>>

\* Physics::update
Update(deltaTime) ==
    IF deltaTime <= 0
    THEN UNCHANGED physics
    ELSE /\ m_simulationTime' = m_simulationTime + deltaTime
         /\ m_stepCount' = m_stepCount + 1
         /\ m_objects' = StepPhases(m_objects, m_blackHole, m_gravityEnabled,
                                    m_integrationMethod, deltaTime).post
         /\ UNCHANGED <<m_blackHole, m_gravityEnabled, m_integrationMethod>>

\* Physics::addObject rejecting only above 16 bodies
AddedTo_above(objs, object) == IF Len(objs) > MaxObjects THEN objs ELSE Append(objs, object)

\* Physics::addObject rejecting nothing
AddedTo_always(objs, object) == Append(objs, object)

\* the collection Physics::addObject leaves
AddedTo(objs, object) == IF Len(objs) >= MaxObjects THEN objs ELSE Append(objs, object)

\* Physics::addObject
AddObject(object) ==
    /\ m_objects' = AddedTo(m_objects, object)
    /\ UNCHANGED <<m_blackHole, m_gravityEnabled, m_integrationMethod,
                   m_simulationTime, m_stepCount>>

\* Physics::removeObject returning only for index > size
RemovedAt_inclusive(objs, index) == IF index > Len(objs) THEN objs ELSE Erase(objs, index + 1)

\* the collection Physics::removeObject leaves; index counts from 0
RemovedAt(objs, index) == IF index >= Len(objs) THEN objs ELSE Erase(objs, index + 1)

\* Physics::removeObject
RemoveObject(index) ==
    /\ m_objects' = RemovedAt(m_objects, index)
    /\ UNCHANGED <<m_blackHole, m_gravityEnabled, m_integrationMethod,
                   m_simulationTime, m_stepCount>>

\* Physics::clearObjects
ClearObjects ==
    /\ m_objects' = <<>>
    /\ UNCHANGED <<m_blackHole, m_gravityEnabled, m_integrationMethod,
                   m_simulationTime, m_stepCount>>

\* the collection Physics::resetSimulation leaves
ResetObjects(objs) == [k \in DOMAIN objs |-> ResetForces(SetVelocity(objs[k], Zero3))]

\* Physics::resetSimulation
ResetSimulation ==
    /\ m_simulationTime' = 0
    /\ m_stepCount' = 0
    /\ m_objects' = ResetObjects(m_objects)
    /\ UNCHANGED <<m_blackHole, m_gravityEnabled, m_integrationMethod>>

\* Physics::toggleGravity
ToggleGravity ==
    /\ m_gravityEnabled' = ~m_gravityEnabled
    /\ UNCHANGED <<m_objects, m_blackHole, m_integrationMethod, m_simulationTime, m_stepCount>>

\* Physics::setIntegrationMethod
SetIntegrationMethod(method) ==
    /\ m_integrationMethod' = method
    /\ UNCHANGED <<m_objects, m_blackHole, m_gravityEnabled, m_simulationTime, m_stepCount>>

\* Physics::getBlackHole().setMass(mass)
SetBlackHoleMass(mass) ==
    /\ m_blackHole' = SetMass(m_blackHole, mass)
    /\ UNCHANGED <<m_objects, m_gravityEnabled, m_integrationMethod,
                   m_simulationTime, m_stepCount>>

\* the const queries Physics::getTotalEnergy, getKineticEnergy and
\* getPotentialEnergy: they read the bodies and the black hole and write nothing
EnergyQueries == UNCHANGED physics

\* the GLFW key codes Physics::processKeyboard tells apart, and one it ignores
Keys == {"G", "1", "2", "3", "SPACE", "ESCAPE"}

\* the GLFW key actions
Actions == {"PRESS", "RELEASE", "REPEAT"}

\* Physics::processKeyboard without the test of the action: a release or a repeat
\* of a key acts as its press
ProcessKeyboard_anyAction(key, action) ==
    CASE key = "G" -> ToggleGravity
      [] key = "1" -> SetIntegrationMethod("EULER")
      [] key = "2" -> SetIntegrationMethod("LEAPFROG")
      [] key = "3" -> SetIntegrationMethod("RK4")
      [] key = "SPACE" -> ResetSimulation
      [] OTHER -> UNCHANGED physics

\* Physics::processKeyboard
ProcessKeyboard(key, action) ==
    IF action = "PRESS"
    THEN CASE key = "G" -> ToggleGravity
           [] key = "1" -> SetIntegrationMethod("EULER")
           [] key = "2" -> SetIntegrationMethod("LEAPFROG")
           [] key = "3" -> SetIntegrationMethod("RK4")
           [] key = "SPACE" -> ResetSimulation
           [] OTHER -> UNCHANGED physics
    ELSE UNCHANGED physics

(***************************************************************************)
(* Construction                                                            *)
(***************************************************************************)
\* the two default bodies of Physics::initializeObjects
star1 == Object(<<40, 0, 0>>, Zero3, 3, 4, "Test Star 1")

planet1 == Object(<<0, 0, 40>>, Zero3, 1, 4, "Test Planet 1")

\* Physics::initializeObjects
InitializeObjects(objs) == IF objs = <<>> THEN AddedTo(AddedTo(objs, star1), planet1) ELSE objs

\* values of physics.integrationMethod in the configuration file; NoValue: absent
NoValue == "<absent>"

ConfigMethods == {NoValue, "euler", "leapfrog", "rk4", "EULER", "Leapfrog", "verlet"}

\* Config::getString(key, defaultValue)
GetString(value, defaultValue) == IF value = NoValue THEN defaultValue ELSE value

\* the parse falling back to EULER
ParseIntegrationMethod_eulerFallback(methodStr) ==
    IF methodStr = "leapfrog" THEN "LEAPFROG"
    ELSE IF methodStr = "rk4" THEN "RK4"
    ELSE "EULER"

\* the parse comparing without regard to case
ParseIntegrationMethod_anyCase(methodStr) ==
    IF methodStr \in {"euler", "EULER", "Euler"} THEN "EULER"
    ELSE IF methodStr \in {"leapfrog", "LEAPFROG", "Leapfrog"} THEN "LEAPFROG"
    ELSE "RK4"

\* the parse of the integration method in Physics::Physics
ParseIntegrationMethod(methodStr) ==
    IF methodStr = "euler" THEN "EULER"
    ELSE IF methodStr = "leapfrog" THEN "LEAPFROG"
    ELSE "RK4"

(***************************************************************************)
(* Renderer                                                                *)
(***************************************************************************)
\* the count of bodies Renderer::uploadObjectsUBO copies into its 16 slots
UploadCount(objs) == IF Len(objs) < 16 THEN Len(objs) ELSE 16

\* what Renderer::uploadObjectsUBO copies of the bodies
Upload(objs) ==
    [k \in 1..UploadCount(objs) |->
        [position |-> objs[k].position, radius |-> objs[k].radius, mass |-> objs[k].mass]]

(***************************************************************************)
(* Engine: the frame loop of main                                          *)
(***************************************************************************)
\* a frame that renders before it updates the physics
NextStage_rendersFirst(pc) ==
    CASE pc = "poll" -> "render"
      [] pc = "render" -> "physics"
      [] pc = "physics" -> "poll"

\* the statements of a frame in the order of main and Engine::update:
\* glfwPollEvents, Physics::update, Engine::render, and the loop again
NextStage(pc) ==
    CASE pc = "poll" -> "physics"
      [] pc = "physics" -> "render"
      [] pc = "render" -> "poll"

\* Engine::Engine: no frame has begun, the window is open, nothing is uploaded
FirstFrame ==
    [pc |-> "poll", pending |-> <<>>, shouldClose |-> FALSE, updated |-> FALSE,
     uploaded |-> <<>>]

(***************************************************************************)
(* History variables: what the last call was, and what a step went through *)
(***************************************************************************)
\* a body of a phase, with the index it had when the step began
Tagged(objs) ==
    [k \in DOMAIN objs |->
        [position |-> objs[k].position, velocity |-> objs[k].velocity,
         acceleration |-> objs[k].acceleration, mass |-> objs[k].mass,
         radius |-> objs[k].radius, name |-> objs[k].name, active |-> objs[k].active,
         forceSum |-> objs[k].forceSum, positionHistory |-> objs[k].positionHistory,
         tag |-> k]]

\* the bodies of a phase without their tags
Untagged(objs) ==
    [k \in DOMAIN objs |->
        [position |-> objs[k].position, velocity |-> objs[k].velocity,
         acceleration |-> objs[k].acceleration, mass |-> objs[k].mass,
         radius |-> objs[k].radius, name |-> objs[k].name, active |-> objs[k].active,
         forceSum |-> objs[k].forceSum, positionHistory |-> objs[k].positionHistory]]

NoStep == [pre |-> <<>>, forces |-> <<>>, central |-> <<>>, integrated |-> <<>>,
           collided |-> <<>>, removed |-> <<>>, post |-> <<>>]

\* a call: arg is the deltaTime of update, the size of the collection addObject
\* finds, the index of removeObject, the mass of setMass, the energies returned
\* to a query, and for the constructor the value of physics.integrationMethod
\* in the configuration
Call(op, arg, gravityEnabled, step) ==
    [op |-> op, arg |-> arg, gravityEnabled |-> gravityEnabled, step |-> step]

\* the last call was op, an operation other than update, called outside the
\* frame loop
Note(op, arg) == last' = Call(op, arg, FALSE, NoStep) /\ UNCHANGED frame

\* the last call is not recorded
Quiet == Note("other", 0)

\* update(deltaTime) is called: at most MaxUpdates times with deltaTime > 0.
\* With phases, last records the phases of a step and no call that is no step;
\* without, it records every call of update and no phases.
Step(deltaTime, phases) ==
    /\ deltaTime > 0 => updates < MaxUpdates
    /\ Update(deltaTime)
    /\ updates' = IF deltaTime > 0 THEN updates + 1 ELSE updates
    /\ last' = IF ~phases THEN Call("update", deltaTime, m_gravityEnabled, NoStep)
               ELSE IF deltaTime > 0
               THEN Call("update", deltaTime, m_gravityEnabled,
                         StepPhases(Tagged(m_objects), m_blackHole, m_gravityEnabled,
                                    m_integrationMethod, deltaTime))
               ELSE Call("other", 0, FALSE, NoStep)
    /\ UNCHANGED <<adds, frame>>

\* Physics::Physics
Init ==
    /\ m_objects = InitializeObjects(<<>>)
    /\ m_blackHole = BlackHole(Zero3, DefaultBlackHoleMass)
    /\ m_gravityEnabled \in BOOLEAN
    /\ m_simulationTime = 0
    /\ m_stepCount = 0
    /\ updates = 0
    /\ adds = 0
    /\ \E value \in ConfigMethods :
           /\ m_integrationMethod = ParseIntegrationMethod(GetString(value, "rk4"))
           /\ last = Call("Physics", value, FALSE, NoStep)
    /\ frame = FirstFrame

(***************************************************************************)
(* The callers: the bodies and arguments they pass                         *)
(***************************************************************************)
\* the deltaTime passed to update
DeltaTimes == {-1, 0, 2}

\* bodies handed to addObject under Spec
Templates ==
    { Object(<<0, 0, 0>>, Zero3, 2, 1, "core"),          \* on the black hole
      Object(<<1, 0, 0>>, Zero3, 2, 1, "deep"),          \* at 0.1 * Rs exactly
      Object(<<0, 10, 0>>, Zero3, 1, 1, "rim"),          \* at Rs exactly
      Object(<<40, 8, 0>>, Zero3, 4, 4, "giant"),        \* touches star1, heavier
      Object(<<0, 12, 0>>, <<0, 61, 0>>, 1, 1, "diver"), \* moving, just outside Rs
      SetActive(Object(<<0, 30, 0>>, Zero3, 2, 1, "husk"), FALSE) }

\* bodies handed to addObject under SpecCap: one that no step changes
CapTemplates == { SetActive(Object(<<0, 60, 0>>, Zero3, 1, 1, "filler"), FALSE) }

\* Spec: the default bodies are thinned out, at most MaxAdds bodies are loaded,
\* then the simulation runs; last records the steps
Next ==
    \/ \E deltaTime \in DeltaTimes : Step(deltaTime, TRUE)
    \/ \E object \in Templates :
           /\ adds < MaxAdds
           /\ updates = 0
           /\ AddObject(object)
           /\ adds' = adds + 1
           /\ Quiet
           /\ UNCHANGED updates
    \/ \E index \in 0..Len(m_objects) :
           /\ adds = 0
           /\ updates = 0
           /\ RemoveObject(index)
           /\ Quiet
           /\ UNCHANGED <<updates, adds>>
    \/ adds = 0 /\ updates = 0 /\ ClearObjects /\ Quiet /\ UNCHANGED <<updates, adds>>
    \/ ResetSimulation /\ Quiet /\ UNCHANGED <<updates, adds>>
    \/ \E key \in Keys, action \in Actions :
           ProcessKeyboard(key, action) /\ Quiet /\ UNCHANGED <<updates, adds>>

Spec == Init /\ [][Next]_vars

\* SpecCap: the calls in any order, the collection driven to its capacity and
\* shortened from its front; last records the calls of update and of addObject
NextCap ==
    \/ \E deltaTime \in DeltaTimes : Step(deltaTime, FALSE)
    \/ \E object \in CapTemplates :
           /\ AddObject(object)
           /\ Note("addObject", Len(m_objects))
           /\ UNCHANGED <<updates, adds>>
    \/ \E index \in {0, Len(m_objects)} :
           RemoveObject(index) /\ Quiet /\ UNCHANGED <<updates, adds>>
    \/ ClearObjects /\ Quiet /\ UNCHANGED <<updates, adds>>
    \/ ResetSimulation /\ Quiet /\ UNCHANGED <<updates, adds>>
    \/ \E key \in Keys, action \in Actions :
           ProcessKeyboard(key, action) /\ Quiet /\ UNCHANGED <<updates, adds>>

SpecCap == Init /\ [][NextCap]_vars

\* bodies handed to addObject under SpecUse: two massless bodies, one of them
\* with a force applied through applyForce before it was handed over
UseTemplates ==
    { Object(<<20, 0, 0>>, <<1, 0, 0>>, 0, 1, "dust"),
      ApplyForce(Object(<<0, 20, 0>>, <<0, 1, 0>>, 0, 1, "mote"), <<6, 0, 0>>),
      Object(<<40, 8, 0>>, <<0, 1, 0>>, 4, 4, "giant"),  \* touches star1, heavier
      SetActive(Object(<<0, 30, 0>>, Zero3, 2, 1, "husk"), FALSE) }

\* the masses handed to BlackHole::setMass
Masses == {1, 10}

\* SpecUse: bodies are added and removed by index, then the simulation runs; the
\* mass of the black hole is set and the energies are queried at any time, and
\* no key is pressed; last records the steps, the removals and the energies
NextUse ==
    \/ \E deltaTime \in DeltaTimes : Step(deltaTime, TRUE)
    \/ \E object \in UseTemplates :
           /\ adds < MaxAdds
           /\ updates = 0
           /\ AddObject(object)
           /\ adds' = adds + 1
           /\ Quiet
           /\ UNCHANGED updates
    \/ \E index \in 0..(Len(m_objects) + 1) :
           /\ updates = 0
           /\ RemoveObject(index)
           /\ last' = Call("removeObject", index, FALSE, [NoStep EXCEPT !.pre = m_objects])
           /\ UNCHANGED <<updates, adds, frame>>
    \/ \E mass \in Masses :
           SetBlackHoleMass(mass) /\ Note("setMass", mass) /\ UNCHANGED <<updates, adds>>
    \/ /\ EnergyQueries
       /\ last' = Call("getTotalEnergy",
                       [kinetic |-> GetKineticEnergy(m_objects),
                        potential |-> GetPotentialEnergy(m_objects, m_blackHole, m_G),
                        total |-> GetTotalEnergy(m_objects, m_blackHole, m_G)],
                       FALSE, [NoStep EXCEPT !.pre = m_objects])
       /\ UNCHANGED <<updates, adds, frame>>

SpecUse == Init /\ [][NextUse]_vars

\* the key events the window system queues under SpecFrame
KeyEvents ==
    { <<"G", "PRESS">>, <<"G", "RELEASE">>, <<"1", "PRESS">>, <<"SPACE", "PRESS">>,
      <<"ESCAPE", "PRESS">> }

\* the window system queues a key event; it waits for the next glfwPollEvents
KeyArrives(event) ==
    /\ Len(frame.pending) < MaxPending
    /\ frame' = [frame EXCEPT !.pending = Append(@, event)]
    /\ UNCHANGED physics

\* Engine::keyCallback, called by glfwPollEvents for the oldest queued event
KeyCallback ==
    /\ frame.pc = "poll"
    /\ frame.pending # <<>>
    /\ LET key == Head(frame.pending)[1]
           action == Head(frame.pending)[2]
       IN  /\ frame' = [frame EXCEPT
                           !.pending = Tail(@),
                           !.shouldClose = @ \/ (key = "ESCAPE" /\ action = "PRESS")]
           /\ ProcessKeyboard(key, action)

\* glfwPollEvents returns to Engine::update: no event is left in the queue
PollEventsReturns ==
    /\ frame.pc = "poll"
    /\ frame.pending = <<>>
    /\ frame' = [frame EXCEPT !.pc = NextStage("poll"), !.updated = FALSE]
    /\ UNCHANGED physics

\* m_physics->update(deltaTime) in Engine::update
PhysicsUpdate(deltaTime) ==
    /\ frame.pc = "physics"
    /\ deltaTime > 0 => updates < MaxUpdates
    /\ Update(deltaTime)
    /\ updates' = IF deltaTime > 0 THEN updates + 1 ELSE updates
    /\ frame' = [frame EXCEPT !.pc = NextStage("physics"), !.updated = TRUE]

\* Engine::render, and the test of Engine::isRunning that ends or repeats the loop
Render ==
    /\ frame.pc = "render"
    /\ frame' = [frame EXCEPT
                    !.uploaded = Upload(m_objects),
                    !.pc = IF frame.shouldClose THEN "done" ELSE NextStage("render")]
    /\ UNCHANGED physics

\* SpecFrame: the frame loop of main over the constructed simulation, with key
\* events arriving at any moment
NextFrame ==
    \/ \E event \in KeyEvents :
           KeyArrives(event) /\ UNCHANGED <<updates, adds, last>>
    \/ KeyCallback /\ UNCHANGED <<updates, adds, last>>
    \/ PollEventsReturns /\ UNCHANGED <<updates, adds, last>>
    \/ \E deltaTime \in DeltaTimes :
           /\ PhysicsUpdate(deltaTime)
           /\ last' = Call("update", deltaTime, m_gravityEnabled, NoStep)
           /\ UNCHANGED adds
    \/ Render /\ UNCHANGED <<updates, adds, last>>

SpecFrame == Init /\ [][NextFrame]_vars

\* SpecKeys: the constructed simulation is stepped and receives key events in
\* any order; last records the key events, with the gravity flag they found
NextKeys ==
    \/ \E deltaTime \in DeltaTimes : Step(deltaTime, FALSE)
    \/ \E key \in Keys, action \in Actions :
           /\ ProcessKeyboard(key, action)
           /\ last' = Call("processKeyboard", <<key, action>>, m_gravityEnabled, NoStep)
           /\ UNCHANGED <<updates, adds, frame>>

SpecKeys == Init /\ [][NextKeys]_vars

\* the body handed to addObject under SpecTrail: far from the others and moving
TrailTemplates == { Object(<<0, 200, 0>>, <<1, 0, 0>>, 1, 1, "comet") }

\* SpecTrail: at most one body is added to the constructed simulation, which is
\* then stepped up to MaxTrail times; last records the steps
NextTrail ==
    \/ \E object \in TrailTemplates :
           /\ adds = 0
           /\ updates = 0
           /\ AddObject(object)
           /\ adds' = adds + 1
           /\ Quiet
           /\ UNCHANGED updates
    \/ \E deltaTime \in DeltaTimes :
           /\ deltaTime > 0 => updates < MaxTrail
           /\ Update(deltaTime)
           /\ updates' = IF deltaTime > 0 THEN updates + 1 ELSE updates
           /\ last' = IF deltaTime > 0
                      THEN Call("update", deltaTime, m_gravityEnabled,
                                StepPhases(Tagged(m_objects), m_blackHole, m_gravityEnabled,
                                           m_integrationMethod, deltaTime))
                      ELSE Call("other", 0, FALSE, NoStep)
           /\ UNCHANGED <<adds, frame>>

SpecTrail == Init /\ [][NextTrail]_vars

\* the names of the bodies loaded under SpecOrder, one for each call of addObject
LoadNames ==
    <<"b1", "b2", "b3", "b4", "b5", "b6", "b7", "b8", "b9", "b10", "b11", "b12",
      "b13", "b14", "b15", "b16", "b17">>

\* the body handed to the n-th call of addObject under SpecOrder, each with a
\* name of its own: a rock far from the black hole, an inactive body, a body
\* inside the horizon, and a body that overlaps the rock loaded three calls
\* before it, heavier than the rock or as heavy
Loaded(n) ==
    CASE n % 4 = 1 -> Object(<<0, 0, 100 + 10 * n>>, Zero3, 1, 1, LoadNames[n])
      [] n % 4 = 2 -> SetActive(Object(<<0, 60, 0>>, Zero3, 2, 1, LoadNames[n]), FALSE)
      [] n % 4 = 3 -> Object(<<5, 0, 0>>, Zero3, 1, 1, LoadNames[n])
      [] n % 4 = 0 -> Object(<<0, 0, 100 + 10 * (n - 3) + 1>>, Zero3,
                             IF n % 8 = 0 THEN 1 ELSE 2, 1, LoadNames[n])

\* SpecOrder: addObject is called up to MaxLoads times, past the limit of
\* MaxObjects bodies, one body is removed by index while none has been removed,
\* then the simulation runs; last records each call with the collection it found
NextOrder ==
    \/ \E deltaTime \in DeltaTimes : Step(deltaTime, TRUE)
    \/ \E object \in {Loaded(adds + 1)} :
           /\ adds < MaxLoads
           /\ updates = 0
           /\ AddObject(object)
           /\ adds' = adds + 1
           /\ last' = Call("addObject", Len(m_objects), FALSE,
                           [NoStep EXCEPT !.pre = m_objects])
           /\ UNCHANGED <<updates, frame>>
    \/ \E index \in {0, 1, Len(m_objects)} :
           /\ Len(m_objects) = adds + 2
           /\ RemoveObject(index)
           /\ last' = Call("removeObject", index, FALSE, [NoStep EXCEPT !.pre = m_objects])
           /\ UNCHANGED <<updates, adds, frame>>

SpecOrder == Init /\ [][NextOrder]_vars

(***************************************************************************)
(* Properties                                                              *)
(***************************************************************************)
\* C1: update(deltaTime) with deltaTime <= 0 leaves the whole simulation state as
\* it was: the bodies (membership, order, positions, velocities, forces, activity,
\* histories), the gravity flag, the method, the simulated time and the step count.
C1_NonPositiveDeltaIsNoOp ==
    [][(last'.op = "update" /\ last'.arg <= 0) => UNCHANGED physics]_vars

C1_Witness ==
    /\ last.op = "update"
    /\ last.arg <= 0
    /\ last.gravityEnabled
    /\ m_stepCount > 0
    /\ m_objects # <<>>

\* C2: addObject on a collection of 16 bodies changes nothing and returns; on a
\* collection of fewer it appends the body at the end, the size growing by one,
\* and changes nothing else.
C2_AddObjectRejectsAt16 ==
    [][last'.op = "addObject" =>
          IF Len(m_objects) >= 16
          THEN UNCHANGED physics
          ELSE /\ \E object \in CapTemplates : m_objects' = Append(m_objects, object)
               /\ Len(m_objects') = Len(m_objects) + 1
               /\ \A k \in DOMAIN m_objects : m_objects'[k] = m_objects[k]
               /\ UNCHANGED <<m_blackHole, m_gravityEnabled, m_integrationMethod,
                              m_simulationTime, m_stepCount>>]_vars

C2_Witness ==
    /\ last.op = "addObject"
    /\ last.arg = 16
    /\ Len(m_objects) = 16

\* C3: the collection never holds more than 16 bodies, so the renderer's 16 slots
\* take all of it.
C3_AtMost16Bodies ==
    /\ Len(m_objects) <= 16
    /\ UploadCount(m_objects) = Len(m_objects)

C3_Witness ==
    /\ Len(m_objects) = 16
    /\ last.op = "update"
    /\ last.arg > 0

\* the last call was a step: update with deltaTime > 0
Stepped == last.op = "update" /\ last.arg > 0

\* the body tagged t is in the collection
Holds(objs, t) == \E k \in DOMAIN objs : objs[k].tag = t

\* the distance of a body to the black hole is at most the horizon radius
InsideHorizon(body) ==
    Length(VecSub(body.position, m_blackHole.position)) <= m_blackHole.schwarzschildRadius

\* the body is inside the horizon or inactive
Doomed(body) == InsideHorizon(body) \/ ~body.active

\* C4: after a step with gravity enabled, no body that was inside the horizon
\* (distance to the black hole <= horizon radius) or inactive when the step
\* started is in the collection, whatever its mass and its neighbours.
C4_SwallowedBodiesAreErased ==
    (Stepped /\ last.gravityEnabled) =>
        /\ m_objects = Untagged(last.step.post)
        /\ \A k \in DOMAIN last.step.pre :
               Doomed(last.step.pre[k]) => ~Holds(last.step.post, k)

C4_Witness ==
    /\ Stepped
    /\ last.gravityEnabled
    /\ \E k \in DOMAIN last.step.pre :
           /\ k + 1 \in DOMAIN last.step.pre
           /\ last.step.pre[k].active
           /\ InsideHorizon(last.step.pre[k])
           /\ Doomed(last.step.pre[k + 1])
           /\ last.step.pre[k].mass # last.step.pre[k + 1].mass
           /\ ~Holds(last.step.post, k)
           /\ ~Holds(last.step.post, k + 1)
    /\ m_objects # <<>>

\* C5 as claimed: a step taken while gravity is disabled removes every body that
\* is inside the horizon and every deactivated body.
C5_RemovalWhateverTheFlag ==
    (Stepped /\ ~last.gravityEnabled) =>
        \A k \in DOMAIN last.step.pre :
            Doomed(last.step.pre[k]) => ~Holds(last.step.post, k)

\* C5: a step taken while gravity is disabled removes no body: the bodies inside
\* the horizon and the deactivated bodies stay in the collection, in their order;
\* removal belongs to the steps taken while gravity is enabled.
C5_NoRemovalWhileGravityDisabled ==
    (Stepped /\ ~last.gravityEnabled) =>
        /\ m_objects = Untagged(last.step.post)
        /\ Len(last.step.post) = Len(last.step.pre)
        /\ \A k \in DOMAIN last.step.pre : last.step.post[k].tag = k

\* gravity was toggled off after a step; a body that step moved inside the
\* horizon is still in the collection after the next step
C5_Witness ==
    /\ Stepped
    /\ ~last.gravityEnabled
    /\ updates = 2
    /\ \E k \in DOMAIN last.step.pre :
           /\ last.step.pre[k].active
           /\ InsideHorizon(last.step.pre[k])
           /\ Holds(last.step.post, k)
           /\ m_objects[k].name = last.step.pre[k].name

Colliding(o, other) ==
    /\ o.active
    /\ other.active
    /\ Length(VecSub(other.position, o.position)) <= o.radius + other.radius

\* the collision pass of the last step: its pairs and, at k + 1, the bodies after
\* the first k of them
CollisionPairs == PairOrder(Len(last.step.integrated))

RECURSIVE CollisionTrace(_, _)
CollisionTrace(pairs, k) ==
    IF k = 0 THEN <<last.step.integrated>>
    ELSE LET trace == CollisionTrace(pairs, k - 1)
         IN  Append(trace, CollidePair(trace[k], pairs[k][1], pairs[k][2]))

\* C7: in collision resolution, of a pair (i, j), i before j, whose bodies are
\* active when the pair is examined and collide, exactly one is deactivated: the
\* one of strictly smaller mass, and the second one, j, when the masses are equal.
C7_HeavierOrFirstSurvives ==
    (Stepped /\ last.gravityEnabled) =>
        LET pairs == CollisionPairs
            trace == CollisionTrace(pairs, Len(pairs))
        IN  /\ last.step.collided = trace[Len(pairs) + 1]
            /\ \A k \in DOMAIN pairs :
                   LET i == pairs[k][1]
                       j == pairs[k][2]
                       obj1 == trace[k][i]
                       obj2 == trace[k][j]
                   IN  Colliding(obj1, obj2) =>
                           IF obj1.mass < obj2.mass
                           THEN ~trace[k + 1][i].active /\ trace[k + 1][j].active
                           ELSE trace[k + 1][i].active /\ ~trace[k + 1][j].active

\* one pass with a tie, lost by the second body, and a pair whose first body is
\* the lighter one
C7_Witness ==
    /\ Stepped
    /\ last.gravityEnabled
    /\ LET pairs == CollisionPairs
           trace == CollisionTrace(pairs, Len(pairs))
       IN  /\ \E k \in DOMAIN pairs :
                  /\ Colliding(trace[k][pairs[k][1]], trace[k][pairs[k][2]])
                  /\ trace[k][pairs[k][1]].mass = trace[k][pairs[k][2]].mass
                  /\ ~last.step.collided[pairs[k][2]].active
           /\ \E k \in DOMAIN pairs :
                  /\ Colliding(trace[k][pairs[k][1]], trace[k][pairs[k][2]])
                  /\ trace[k][pairs[k][1]].mass < trace[k][pairs[k][2]].mass
                  /\ ~last.step.collided[pairs[k][1]].active

\* the body collides with another body of the collection
InCollision(objs, k) == \E n \in DOMAIN objs : n # k /\ Colliding(objs[k], objs[n])

\* C8: collision resolution changes only the active flag, and only from true to
\* false: a body that stays active is as it was (position, velocity, acceleration,
\* accumulated force, mass, radius), and so is a body that collides with none.
C8_CollisionOnlyDeactivates ==
    (Stepped /\ last.gravityEnabled) =>
        /\ Len(last.step.collided) = Len(last.step.integrated)
        /\ \A k \in DOMAIN last.step.integrated :
               LET before == last.step.integrated[k]
                   after == last.step.collided[k]
               IN  /\ after = [before EXCEPT !.active = after.active]
                   /\ after.active => before.active
                   /\ ~InCollision(last.step.integrated, k) => after = before

\* a collision whose survivor carries an accumulated force and a velocity into
\* the pass
C8_Witness ==
    /\ Stepped
    /\ last.gravityEnabled
    /\ \E k, n \in DOMAIN last.step.integrated :
           /\ Colliding(last.step.integrated[k], last.step.integrated[n])
           /\ last.step.collided[k].active
           /\ ~last.step.collided[n].active
           /\ last.step.collided[k].forceSum # Zero3
           /\ last.step.collided[k].mass >= last.step.integrated[n].mass
    /\ \E k \in DOMAIN last.step.integrated :
           /\ last.step.integrated[k].active
           /\ ~InCollision(last.step.integrated, k)

\* the force pass of the last step: its pairs and, at k + 1, the bodies after the
\* first k of them
ForcePairs == PairOrder(Len(last.step.pre))

RECURSIVE ForceTrace(_, _)
ForceTrace(pairs, k) ==
    IF k = 0 THEN <<last.step.pre>>
    ELSE LET trace == ForceTrace(pairs, k - 1)
         IN  Append(trace, ForcePair(trace[k], pairs[k][1], pairs[k][2], m_G))

\* the sum of the accumulated forces of the first n bodies
RECURSIVE ForceTotal(_, _)
ForceTotal(objs, n) ==
    IF n = 0 THEN Zero3 ELSE VecAdd(ForceTotal(objs, n - 1), objs[n].forceSum)

\* C9: in a force pass started with every accumulated force at zero, the force a
\* pair adds to one of its bodies is the negation of the force it adds to the
\* other and no other body changes, so the accumulated forces sum to zero; a pair
\* with an inactive body or at zero separation adds nothing, and an inactive body
\* ends the pass with no force.
C9_PairwiseForcesCancel ==
    (/\ Stepped
     /\ last.gravityEnabled
     /\ \A k \in DOMAIN last.step.pre : last.step.pre[k].forceSum = Zero3) =>
        LET pairs == ForcePairs
            trace == ForceTrace(pairs, Len(pairs))
        IN  /\ last.step.forces = trace[Len(pairs) + 1]
            /\ \A k \in DOMAIN pairs :
                   LET i == pairs[k][1]
                       j == pairs[k][2]
                       before == trace[k]
                       after == trace[k + 1]
                       added(n) == VecSub(after[n].forceSum, before[n].forceSum)
                   IN  /\ added(j) = VecNeg(added(i))
                       /\ \A n \in DOMAIN before :
                              after[n] = [before[n] EXCEPT !.forceSum = after[n].forceSum]
                       /\ \A n \in DOMAIN before \ {i, j} : after[n] = before[n]
                       /\ (\/ ~before[i].active
                           \/ ~before[j].active
                           \/ before[j].position = before[i].position) => after = before
            /\ ForceTotal(last.step.forces, Len(last.step.forces)) = Zero3
            /\ \A k \in DOMAIN last.step.pre :
                   ~last.step.pre[k].active => last.step.forces[k].forceSum = Zero3

\* a pass with two active bodies at the same position and a pair that pulls
C9_Witness ==
    /\ Stepped
    /\ last.gravityEnabled
    /\ \A k \in DOMAIN last.step.pre : last.step.pre[k].forceSum = Zero3
    /\ LET pairs == ForcePairs
           trace == ForceTrace(pairs, Len(pairs))
       IN  /\ \E k \in DOMAIN pairs :
                  /\ trace[k][pairs[k][1]].active
                  /\ trace[k][pairs[k][2]].active
                  /\ trace[k][pairs[k][1]].position = trace[k][pairs[k][2]].position
           /\ \E k \in DOMAIN pairs :
                  trace[k + 1][pairs[k][1]].forceSum # trace[k][pairs[k][1]].forceSum
    /\ \E k \in DOMAIN last.step.forces : last.step.forces[k].forceSum # Zero3

\* C10: in a step with gravity enabled the black hole adds no force to an active
\* body whose distance to it is at most 0.1 * the horizon radius and adds its
\* inverse-square force to an active body beyond; a body on the black hole's
\* position goes on with the force of the pairs alone.
C10_CentralForceCutoff ==
    (Stepped /\ last.gravityEnabled) =>
        /\ Len(last.step.central) = Len(last.step.forces)
        /\ \A k \in DOMAIN last.step.forces :
               LET body == last.step.forces[k]
                   displacement == VecSub(m_blackHole.position, body.position)
                   distance == Length(displacement)
                   added == VecSub(last.step.central[k].forceSum, body.forceSum)
               IN  /\ last.step.central[k] =
                          [body EXCEPT !.forceSum = last.step.central[k].forceSum]
                   /\ (body.active /\ 10 * distance <= m_blackHole.schwarzschildRadius) =>
                          added = Zero3
                   /\ (body.active /\ 10 * distance > m_blackHole.schwarzschildRadius) =>
                          added = Directed(displacement,
                                           (m_G * m_blackHole.mass * body.mass)
                                               \div (distance * distance))
                   /\ (body.active /\ body.position = m_blackHole.position) =>
                          last.step.central[k].forceSum =
                              CalculateGravitationalForces(last.step.pre, m_G)[k].forceSum

\* a body on the black hole's position pulled by the other bodies only, a body
\* at 0.1 * the horizon radius exactly, and a body the black hole pulls
C10_Witness ==
    /\ Stepped
    /\ last.gravityEnabled
    /\ \E k \in DOMAIN last.step.forces :
           /\ last.step.forces[k].active
           /\ last.step.forces[k].mass > 0
           /\ last.step.forces[k].position = m_blackHole.position
           /\ last.step.central[k].forceSum = last.step.forces[k].forceSum
           /\ last.step.forces[k].forceSum # Zero3
    /\ \E k \in DOMAIN last.step.forces :
           /\ last.step.forces[k].active
           /\ 10 * Length(VecSub(m_blackHole.position, last.step.forces[k].position))
                  = m_blackHole.schwarzschildRadius
           /\ last.step.central[k].forceSum = last.step.forces[k].forceSum
    /\ \E k \in DOMAIN last.step.forces :
           last.step.central[k].forceSum # last.step.forces[k].forceSum

\* C11: a body of mass 0 never changes its velocity: after a step, with gravity
\* enabled or not and whatever force applyForce has accumulated on it, its
\* velocity is the one it had when the step began, and its acceleration is the
\* zero vector.
C11_MasslessKeepsVelocity ==
    /\ \A k \in DOMAIN m_objects :
           m_objects[k].mass = 0 => m_objects[k].acceleration = Zero3
    /\ Stepped =>
           /\ m_objects = Untagged(last.step.post)
           /\ \A k \in DOMAIN last.step.post :
                  last.step.post[k].mass = 0 =>
                      last.step.post[k].velocity =
                          last.step.pre[last.step.post[k].tag].velocity

\* a moving massless body with a force pending went through a step with gravity
C11_Witness ==
    /\ Stepped
    /\ last.gravityEnabled
    /\ \E k \in DOMAIN last.step.post :
           /\ m_objects[k].mass = 0
           /\ m_objects[k].active
           /\ last.step.pre[last.step.post[k].tag].forceSum # Zero3
           /\ last.step.central[last.step.post[k].tag].forceSum # Zero3
           /\ m_objects[k].velocity # Zero3
           /\ m_objects[k].position # last.step.pre[last.step.post[k].tag].position

\* C12: the three integration methods are aliases: a step from the same bodies,
\* black hole, gravity flag and deltaTime goes through the same phases and ends
\* in the same collection under each of EULER, LEAPFROG and RK4.
C12_MethodsAreAliases ==
    Stepped =>
        /\ m_objects = Untagged(last.step.post)
        /\ \A method \in IntegrationMethods :
               StepPhases(last.step.pre, m_blackHole, last.gravityEnabled,
                          method, last.arg) = last.step

\* a step with gravity under LEAPFROG in which a body felt a force and gained speed
C12_Witness ==
    /\ Stepped
    /\ last.gravityEnabled
    /\ m_integrationMethod = "LEAPFROG"
    /\ \E k \in DOMAIN last.step.post :
           /\ last.step.central[last.step.post[k].tag].forceSum # Zero3
           /\ last.step.integrated[last.step.post[k].tag].velocity =
                  last.step.pre[last.step.post[k].tag].velocity
           /\ m_objects[k].velocity # last.step.pre[last.step.post[k].tag].velocity

\* C13: at construction, a selector that is absent from the configuration or names
\* no method ("verlet") selects RK4; "euler" selects EULER, "leapfrog" selects
\* LEAPFROG and "rk4" selects RK4.
C13_MethodFromConfig ==
    last.op = "Physics" =>
        /\ last.arg \in {NoValue, "verlet", "rk4"} => m_integrationMethod = "RK4"
        /\ last.arg = "euler" => m_integrationMethod = "EULER"
        /\ last.arg = "leapfrog" => m_integrationMethod = "LEAPFROG"

\* constructed from a configuration whose selector names no method
C13_Witness ==
    /\ last.op = "Physics"
    /\ last.arg = "verlet"
    /\ m_integrationMethod = "RK4"
    /\ m_stepCount = 0

\* C14 as claimed: the selector is matched without regard to case: "EULER" selects
\* the method "euler" selects, and "Leapfrog" the method "leapfrog" selects.
C14_CapitalsSelectTheSameMethod ==
    last.op = "Physics" =>
        /\ last.arg = "EULER" => m_integrationMethod = "EULER"
        /\ last.arg = "Leapfrog" => m_integrationMethod = "LEAPFROG"

\* C14: the selector is matched exactly, capitals included: only "euler" and
\* "leapfrog" in lower case select EULER and LEAPFROG; "EULER" and "Leapfrog"
\* are names of no method and select RK4.
C14_SelectorIsCaseSensitive ==
    last.op = "Physics" =>
        /\ m_integrationMethod = "EULER" <=> last.arg = "euler"
        /\ m_integrationMethod = "LEAPFROG" <=> last.arg = "leapfrog"
        /\ last.arg \in {"EULER", "Leapfrog"} => m_integrationMethod = "RK4"

\* constructed from a configuration that writes the first-order name in capitals
C14_Witness ==
    /\ last.op = "Physics"
    /\ last.arg = "EULER"
    /\ m_integrationMethod = "RK4"
    /\ Len(m_objects) = 2

\* C15: a step advances every body that remains and is active exactly once,
\* whatever the method and the gravity flag: its history gains one position, the
\* new one, which is the old position plus the new velocity * deltaTime, and the
\* new velocity is the old one plus acceleration * deltaTime. A remaining body
\* that is inactive is left as it was.
C15_AdvancedOncePerStep ==
    Stepped =>
        /\ m_objects = Untagged(last.step.post)
        /\ Len(last.step.post) = Len(last.step.removed)
        /\ \A k \in DOMAIN last.step.post :
               LET after == last.step.post[k]
                   before == last.step.pre[after.tag]
               IN  /\ last.step.removed[k].tag = after.tag
                   /\ IF last.step.removed[k].active
                      THEN /\ after.positionHistory =
                                  Append(before.positionHistory, after.position)
                           /\ after.position =
                                  VecAdd(before.position, VecScale(after.velocity, last.arg))
                           /\ after.velocity =
                                  VecAdd(before.velocity,
                                         VecScale(after.acceleration, last.arg))
                           /\ after.forceSum = Zero3
                      ELSE /\ after.positionHistory = before.positionHistory
                           /\ after.position = before.position
                           /\ after.velocity = before.velocity

\* after the second step of a run under RK4 a body in motion has a history of
\* three positions
C15_Witness ==
    /\ Stepped
    /\ updates = 2
    /\ m_integrationMethod = "RK4"
    /\ \E k \in DOMAIN m_objects :
           /\ m_objects[k].active
           /\ m_objects[k].velocity # Zero3
           /\ Len(m_objects[k].positionHistory) = 3
           /\ m_objects[k].positionHistory[2] # m_objects[k].positionHistory[3]

\* the phases of the last step that come before the removal
EarlyPhases == {last.step.forces, last.step.central, last.step.integrated, last.step.collided}

\* C16: a step with gravity enabled runs pairwise forces, central force, the
\* integration dispatch, collisions, removal and the advance in this order: no
\* body has moved before the advance, a body deactivated by a collision has the
\* forces of the first two phases on it and is removed in the same step, and the
\* removal judges the positions the step started with.
C16_PhasesInOrder ==
    (Stepped /\ last.gravityEnabled) =>
        /\ m_objects = Untagged(last.step.post)
        /\ \A phase \in EarlyPhases :
               /\ Len(phase) = Len(last.step.pre)
               /\ \A k \in DOMAIN phase :
                      /\ phase[k].tag = k
                      /\ phase[k].position = last.step.pre[k].position
                      /\ phase[k].velocity = last.step.pre[k].velocity
        /\ \A k \in DOMAIN last.step.pre :
               /\ last.step.collided[k].forceSum = last.step.central[k].forceSum
               /\ (last.step.pre[k].active /\ ~last.step.collided[k].active) =>
                      ~Holds(last.step.post, k)
        /\ \A k \in DOMAIN last.step.removed :
               /\ last.step.removed[k] = last.step.collided[last.step.removed[k].tag]
               /\ ~InsideHorizon(last.step.pre[last.step.removed[k].tag])
               /\ last.step.post[k].tag = last.step.removed[k].tag

\* a body pulled by its neighbour lost a collision and left the collection in the
\* same step, another moved on, and a third was advanced inside the horizon and
\* stays inside the collection
C16_Witness ==
    /\ Stepped
    /\ last.gravityEnabled
    /\ \E k \in DOMAIN last.step.pre :
           /\ last.step.pre[k].active
           /\ last.step.forces[k].forceSum # Zero3
           /\ ~last.step.collided[k].active
           /\ ~Holds(last.step.post, k)
    /\ \E k \in DOMAIN last.step.post :
           /\ last.step.post[k].position # last.step.removed[k].position
           /\ InsideHorizon(last.step.post[k])

\* C18: removeObject(index) with index >= size leaves the collection as it was;
\* with index < size it removes the body at that index and no other: the size
\* drops by one, the bodies before the index stay and those after it move up by
\* one, in their order.
C18_RemoveObjectByIndex ==
    last.op = "removeObject" =>
        IF last.arg >= Len(last.step.pre)
        THEN m_objects = last.step.pre
        ELSE /\ Len(m_objects) = Len(last.step.pre) - 1
             /\ \A k \in DOMAIN m_objects :
                    m_objects[k] = last.step.pre[IF k <= last.arg THEN k ELSE k + 1]

\* the second of three different bodies was removed
C18_Witness ==
    /\ last.op = "removeObject"
    /\ last.arg = 1
    /\ Len(last.step.pre) = 3
    /\ last.step.pre[1].name # last.step.pre[2].name
    /\ last.step.pre[2].name # last.step.pre[3].name
    /\ m_objects = <<last.step.pre[1], last.step.pre[3]>>

\* C19: after construction and after every setMass with a positive mass the
\* horizon radius is 2 * G * mass / c^2 for the mass the black hole has now, so
\* it is proportional to the mass; the photon sphere radius is 1.5 times and the
\* ISCO radius 3 times the horizon radius.
C19_RadiiFollowTheMass ==
    /\ m_blackHole.mass > 0
    /\ GetSchwarzschildRadius(m_blackHole) * c * c = 2 * G * m_blackHole.mass
    /\ GetSchwarzschildRadius(m_blackHole) * DefaultBlackHoleMass =
           GetSchwarzschildRadius(BlackHole(Zero3, DefaultBlackHoleMass)) * m_blackHole.mass
    /\ 2 * GetPhotonSphereRadius(m_blackHole) = 3 * GetSchwarzschildRadius(m_blackHole)
    /\ GetISCORadius(m_blackHole) = 3 * GetSchwarzschildRadius(m_blackHole)

\* the mass was set to twice the constructed one after a step, and the horizon
\* doubled with it
C19_Witness ==
    /\ last.op = "setMass"
    /\ last.arg = 2 * DefaultBlackHoleMass
    /\ m_blackHole.mass = last.arg
    /\ updates > 0
    /\ GetSchwarzschildRadius(m_blackHole) = 20
    /\ GetPhotonSphereRadius(m_blackHole) = 30
    /\ GetISCORadius(m_blackHole) = 60

\* the sum of a sequence of numbers
RECURSIVE SumOf(_)
SumOf(s) == IF s = <<>> THEN 0 ELSE Head(s) + SumOf(Tail(s))

\* G * m1 * m2 / r for two masses at the distance r; no term at distance 0
NewtonTerm(m1, m2, r) == IF r > 0 THEN TruncDiv(G * m1 * m2, r) ELSE 0

\* the active bodies of the collection, in their order
ActiveBodies == SelectSeq(m_objects, LAMBDA o : o.active)

\* G * m_i * m_j / r_ij for every pair of active bodies
PairTerms ==
    LET pairs == PairOrder(Len(ActiveBodies))
    IN  [k \in 1..Len(pairs) |->
            NewtonTerm(ActiveBodies[pairs[k][1]].mass, ActiveBodies[pairs[k][2]].mass,
                       Length(VecSub(ActiveBodies[pairs[k][1]].position,
                                     ActiveBodies[pairs[k][2]].position)))]

\* G * M * m_i / r_i for every active body and the black hole
CentralTerms ==
    [k \in 1..Len(ActiveBodies) |->
        NewtonTerm(m_blackHole.mass, ActiveBodies[k].mass,
                   Length(VecSub(ActiveBodies[k].position, m_blackHole.position)))]

\* 0.5 * m_i * |v_i|^2 for every active body
KineticTerms ==
    [k \in 1..Len(ActiveBodies) |->
        TruncDiv(ActiveBodies[k].mass * Dot(ActiveBodies[k].velocity, ActiveBodies[k].velocity), 2)]

\* C20: the total energy is the kinetic plus the potential energy; the potential
\* energy is minus the sum of G * m_i * m_j / r_ij over the pairs of active bodies
\* and of G * M * m_i / r_i over the active bodies (terms at distance 0 left out),
\* the kinetic energy the sum of 0.5 * m_i * |v_i|^2 over the active bodies, and
\* inactive bodies add to neither; with all velocities zero the kinetic energy is
\* 0 and the total is the potential sum. A query leaves the bodies as they were.
C20_EnergyBookkeeping ==
    last.op = "getTotalEnergy" =>
        /\ m_objects = last.step.pre
        /\ last.arg.total = last.arg.kinetic + last.arg.potential
        /\ last.arg.potential = 0 - SumOf(PairTerms) - SumOf(CentralTerms)
        /\ last.arg.kinetic = SumOf(KineticTerms)
        /\ (\A k \in DOMAIN m_objects : m_objects[k].velocity = Zero3) =>
               /\ last.arg.kinetic = 0
               /\ last.arg.total = 0 - SumOf(PairTerms) - SumOf(CentralTerms)

\* the energies were queried with a moving body, a pair of active bodies apart
\* and an inactive body with mass in the collection
C20_Witness ==
    /\ last.op = "getTotalEnergy"
    /\ last.arg.kinetic > 0
    /\ last.arg.potential < 0
    /\ \E k \in DOMAIN PairTerms : PairTerms[k] > 0
    /\ \E k \in DOMAIN m_objects : ~m_objects[k].active /\ m_objects[k].mass > 0

\* C17: a step is atomic for key events and rendering. In every frame the events
\* queued when the frame polls are all dispatched before Physics::update begins;
\* the simulation state changes only by a key dispatched while the frame polls
\* or by the step itself, so no key is applied between the start of the step and
\* the end of the rendering; and the renderer uploads the bodies as the step of
\* its frame left them.
C17_StepAtomicInFrame ==
    [][ /\ (frame.pc = "poll" /\ frame'.pc # "poll") =>
               (frame.pending = <<>> /\ frame'.pc = "physics")
        /\ (physics' # physics) =>
               \/ frame.pc = "poll" /\ frame'.pc = "poll" /\ frame'.pending = Tail(frame.pending)
               \/ frame.pc = "physics" /\ frame'.pc = "render"
        /\ (frame.pc = "physics" /\ frame'.pc # "physics") =>
               (frame'.updated /\ frame'.pc = "render")
        /\ (frame.pc = "render" /\ frame'.pc # "render") =>
               /\ frame.updated
               /\ frame'.uploaded = Upload(m_objects)
               /\ m_objects' = m_objects
        /\ (frame'.uploaded # frame.uploaded) => frame.pc = "render"
      ]_vars

\* a frame was rendered after a step that moved a body, and a key that arrived
\* during the frame is still waiting for the poll of the next one
C17_Witness ==
    /\ frame.pc = "poll"
    /\ frame.updated
    /\ frame.pending # <<>>
    /\ Head(frame.pending) = <<"SPACE", "PRESS">>
    /\ updates = 2
    /\ frame.uploaded = Upload(m_objects)
    /\ \E k \in DOMAIN m_objects : m_objects[k].velocity # Zero3

\* the body as Physics::Physics made it, found by its name
Constructed(name) ==
    LET made == InitializeObjects(<<>>)
    IN  made[CHOOSE k \in DOMAIN made : made[k].name = name]

\* Engine::keyCallback dispatches the key event (key, action) in this step
Dispatches(key, action) ==
    /\ frame.pc = "poll"
    /\ frame.pending # <<>>
    /\ Head(frame.pending) = <<key, action>>
    /\ frame'.pending = Tail(frame.pending)

\* C21 as documented: resetSimulation (the SPACE key) puts every body back to the
\* position and the velocity it had when the simulation was constructed.
C21_ResetRestoresInitialState ==
    [][Dispatches("SPACE", "PRESS") =>
           \A k \in DOMAIN m_objects' :
               /\ m_objects'[k].position = Constructed(m_objects'[k].name).position
               /\ m_objects'[k].velocity = Constructed(m_objects'[k].name).velocity
      ]_vars

\* the fields of the simulation other than the gravity flag
ButGravity == <<m_objects, m_blackHole, m_integrationMethod, m_simulationTime, m_stepCount>>

\* the fields of the simulation other than the integration method
ButMethod == <<m_objects, m_blackHole, m_gravityEnabled, m_simulationTime, m_stepCount>>

\* C22: a press of G flips the gravity flag and changes nothing else, and a second
\* press right after it gives the flag back its value; a press of 1, 2 or 3 sets
\* the method to EULER, LEAPFROG or RK4 and changes nothing else; a release or a
\* repeat of any key changes nothing of the simulation.
C22_KeysChangeOneField ==
    [][last'.op = "processKeyboard" =>
           /\ last'.arg[2] # "PRESS" => UNCHANGED physics
           /\ last'.arg = <<"G", "PRESS">> =>
                  /\ m_gravityEnabled' = ~m_gravityEnabled
                  /\ UNCHANGED ButGravity
                  /\ (last.op = "processKeyboard" /\ last.arg = <<"G", "PRESS">>) =>
                         m_gravityEnabled' = last.gravityEnabled
           /\ (last'.arg[2] = "PRESS" /\ last'.arg[1] \in {"1", "2", "3"}) =>
                  /\ m_integrationMethod' =
                         CASE last'.arg[1] = "1" -> "EULER"
                           [] last'.arg[1] = "2" -> "LEAPFROG"
                           [] last'.arg[1] = "3" -> "RK4"
                  /\ UNCHANGED ButMethod
      ]_vars

\* G was pressed after a step and flipped the flag the step ran under
C22_Witness ==
    /\ last.op = "processKeyboard"
    /\ last.arg = <<"G", "PRESS">>
    /\ m_gravityEnabled = ~last.gravityEnabled
    /\ m_stepCount > 0
    /\ \E k \in DOMAIN m_objects : m_objects[k].velocity # Zero3

\* the last n entries of a sequence, or all of it when it has fewer
Newest(s, n) ==
    LET keep == IF Len(s) > n THEN n ELSE Len(s)
    IN  [i \in 1..keep |-> s[Len(s) - keep + i]]

\* C23: the position history of a body holds between 1 and 100 positions in every
\* state; a step appends the new position of every active body it advances as the
\* newest entry and, when that makes 101, evicts the oldest one and no other:
\* the history is the newest 100 of the positions in their order.
C23_HistoryIsBoundedFifo ==
    /\ \A k \in DOMAIN m_objects :
           /\ Len(m_objects[k].positionHistory) >= 1
           /\ Len(m_objects[k].positionHistory) <= MaxHistorySize
    /\ Stepped =>
           /\ m_objects = Untagged(last.step.post)
           /\ \A k \in DOMAIN last.step.post :
                  last.step.post[k].positionHistory =
                      IF last.step.removed[k].active
                      THEN Newest(Append(last.step.pre[last.step.post[k].tag].positionHistory,
                                         last.step.post[k].position),
                                  MaxHistorySize)
                      ELSE last.step.pre[last.step.post[k].tag].positionHistory

\* a moving body with a full history was advanced: its oldest position is gone,
\* the second oldest is now the first and the new position the last
C23_Witness ==
    /\ Stepped
    /\ \E k \in DOMAIN last.step.post :
           LET before == last.step.pre[last.step.post[k].tag].positionHistory
               after == m_objects[k].positionHistory
           IN  /\ Len(before) = MaxHistorySize
               /\ Len(after) = MaxHistorySize
               /\ before[1] # before[2]
               /\ after[1] = before[2]
               /\ after[MaxHistorySize - 1] = before[MaxHistorySize]
               /\ after[MaxHistorySize] = m_objects[k].position
               /\ after[MaxHistorySize] # before[MaxHistorySize]

\* the body of the last step's final collection at index k, before the step
Before(k) == last.step.pre[last.step.post[k].tag]

\* the force on the body at index k when the last step advanced it
ForceAtAdvance(k) == last.step.removed[k].forceSum

\* C24: the advance of an active body with dt > 0 takes the velocity first,
\* v' = v + (F / m) * dt, then the position with the new velocity, x' = x + v' * dt,
\* and leaves the accumulated force at zero: the next step starts without the
\* force of this one.
C24_VelocityThenPosition ==
    Stepped =>
        /\ m_objects = Untagged(last.step.post)
        /\ \A k \in DOMAIN last.step.post :
               (last.step.removed[k].active /\ last.step.post[k].mass > 0) =>
                   /\ last.step.post[k].velocity =
                          VecAdd(Before(k).velocity,
                                 VecScale(VecDiv(ForceAtAdvance(k), last.step.post[k].mass),
                                          last.arg))
                   /\ last.step.post[k].position =
                          VecAdd(Before(k).position,
                                 VecScale(last.step.post[k].velocity, last.arg))
                   /\ last.step.post[k].forceSum = Zero3
        /\ updates >= 2 =>
               \A k \in DOMAIN last.step.pre : last.step.pre[k].forceSum = Zero3

\* a body at rest was pulled during the step: it moved by its new velocity, and
\* the force is gone
C24_Witness ==
    /\ Stepped
    /\ \E k \in DOMAIN last.step.post :
           /\ m_objects[k].mass > 0
           /\ ForceAtAdvance(k) # Zero3
           /\ Before(k).velocity = Zero3
           /\ m_objects[k].velocity # Zero3
           /\ m_objects[k].position # Before(k).position
           /\ m_objects[k].forceSum = Zero3

\* C25 as documented: in one step the new velocity is v + a * dt and the new
\* position is x + v * dt, with the velocity v the body had before the step.
C25_PositionByOldVelocity ==
    Stepped =>
        \A k \in DOMAIN last.step.post :
            last.step.removed[k].active =>
                /\ last.step.post[k].velocity =
                       VecAdd(Before(k).velocity,
                              VecScale(last.step.post[k].acceleration, last.arg))
                /\ last.step.post[k].position =
                       VecAdd(Before(k).position, VecScale(Before(k).velocity, last.arg))

\* the force the black hole added to the body at index k in the last step
CentralForceAdded(k) ==
    VecSub(last.step.central[k].forceSum, last.step.forces[k].forceSum)

\* the distance of the body at index k to the black hole when the step began
CentralDistance(k) == Length(VecSub(last.step.pre[k].position, m_blackHole.position))

\* the body at index k is active, has mass and is within the horizon radius,
\* where the inverse-square terms are far above the grid's resolution
NearAndHeavy(k) ==
    /\ last.step.pre[k].active
    /\ last.step.pre[k].mass > 0
    /\ CentralDistance(k) <= m_blackHole.schwarzschildRadius

\* C26 as claimed, for the positions within the horizon radius: the step adds a
\* central force to a body with mass exactly when getGravitationalAcceleration at
\* its position is not the zero vector, at 0.1 * the horizon radius too.
C26_SameClampAsAcceleration ==
    (Stepped /\ last.gravityEnabled) =>
        \A k \in DOMAIN last.step.pre :
            NearAndHeavy(k) =>
                (CentralForceAdded(k) # Zero3 <=>
                     GetGravitationalAcceleration(m_blackHole, last.step.pre[k].position)
                         # Zero3)

\* C26: the step and getGravitationalAcceleration share the threshold of 0.1 * the
\* horizon radius and differ on it: below it the step adds no central force and
\* the acceleration is the zero vector, above it both are inverse-square and
\* point to the black hole, and at exactly 0.1 * the horizon radius the step adds
\* no force while the acceleration is G * M / r^2 toward the black hole.
C26_ClampsDifferOnTheThreshold ==
    (Stepped /\ last.gravityEnabled) =>
        \A k \in DOMAIN last.step.pre :
            (last.step.pre[k].active /\ last.step.pre[k].mass > 0) =>
                LET r == CentralDistance(k)
                    inward == VecSub(m_blackHole.position, last.step.pre[k].position)
                    acceleration ==
                        GetGravitationalAcceleration(m_blackHole, last.step.pre[k].position)
                IN  /\ 10 * r < m_blackHole.schwarzschildRadius =>
                           CentralForceAdded(k) = Zero3 /\ acceleration = Zero3
                    /\ 10 * r = m_blackHole.schwarzschildRadius =>
                           /\ CentralForceAdded(k) = Zero3
                           /\ acceleration =
                                  Directed(inward, (G * m_blackHole.mass) \div (r * r))
                           /\ acceleration # Zero3
                    /\ 10 * r > m_blackHole.schwarzschildRadius =>
                           /\ CentralForceAdded(k) =
                                  Directed(inward,
                                           (m_G * m_blackHole.mass * last.step.pre[k].mass)
                                               \div (r * r))
                           /\ acceleration =
                                  Directed(inward, (G * m_blackHole.mass) \div (r * r))
                           /\ NearAndHeavy(k) =>
                                  CentralForceAdded(k) # Zero3 /\ acceleration # Zero3

\* a step with a body at 0.1 * the horizon radius exactly, which got no central
\* force where the acceleration is not zero, and with a body on the horizon,
\* which got one
C26_Witness ==
    /\ Stepped
    /\ last.gravityEnabled
    /\ \E k \in DOMAIN last.step.pre :
           /\ NearAndHeavy(k)
           /\ 10 * CentralDistance(k) = m_blackHole.schwarzschildRadius
           /\ CentralForceAdded(k) = Zero3
           /\ GetGravitationalAcceleration(m_blackHole, last.step.pre[k].position) # Zero3
    /\ \E k \in DOMAIN last.step.pre :
           /\ NearAndHeavy(k)
           /\ CentralDistance(k) = m_blackHole.schwarzschildRadius
           /\ CentralForceAdded(k) # Zero3

\* C27: after a step with deltaTime > 0 and gravity enabled, every body of the
\* collection is active.
C27_OnlyActiveBodiesRemain ==
    (Stepped /\ last.gravityEnabled) =>
        \A k \in DOMAIN m_objects : m_objects[k].active

\* a step with gravity that began with an inactive body, deactivated another in
\* a collision, and left bodies in the collection
C27_Witness ==
    /\ Stepped
    /\ last.gravityEnabled
    /\ \E k \in DOMAIN last.step.pre : ~last.step.pre[k].active
    /\ \E k \in DOMAIN last.step.collided :
           last.step.integrated[k].active /\ ~last.step.collided[k].active
    /\ m_objects # <<>>
    /\ Len(m_objects) < Len(last.step.pre)

\* the bodies at i and j overlap: both active, no farther apart than the sum of
\* their radii
Overlap(objs, i, j) == IsCollidingWith(objs[i], objs[j])

\* C28: after the collision pass of a step no two bodies that are still active
\* satisfy the collision predicate, however many bodies overlap and in whatever
\* chains.
C28_NoActivePairCollides ==
    (Stepped /\ last.gravityEnabled) =>
        \A i, j \in DOMAIN last.step.collided :
            i < j => ~Overlap(last.step.collided, i, j)

\* a collision pass over a chain of three bodies, the first overlapping the
\* second and the second the third, that deactivated two of them
C28_Witness ==
    /\ Stepped
    /\ last.gravityEnabled
    /\ \E i, j, k \in DOMAIN last.step.integrated :
           /\ i < j /\ j < k
           /\ Overlap(last.step.integrated, i, j)
           /\ Overlap(last.step.integrated, j, k)
           /\ Cardinality({n \in {i, j, k} : last.step.collided[n].active}) = 1

\* the indices of the active bodies of a collection
ActiveIn(objs) == {k \in DOMAIN objs : objs[k].active}

\* the earliest of the heaviest active bodies of a collection that has one
Heaviest(objs) ==
    CHOOSE k \in ActiveIn(objs) :
        \A n \in ActiveIn(objs) :
            \/ objs[n].mass < objs[k].mass
            \/ objs[n].mass = objs[k].mass /\ k <= n

\* C29: the collision pass never deactivates the heaviest active body, the
\* earliest one among bodies of equal mass, so a pass that starts with an active
\* body ends with an active body.
C29_HeaviestSurvivesCollisions ==
    (Stepped /\ last.gravityEnabled /\ ActiveIn(last.step.integrated) # {}) =>
        /\ last.step.collided[Heaviest(last.step.integrated)].active
        /\ ActiveIn(last.step.collided) # {}

\* a collision pass in which the heaviest body is not the first one of the
\* collection, overlaps an earlier lighter body and a later body of its own
\* mass, and both of them were deactivated
C29_Witness ==
    /\ Stepped
    /\ last.gravityEnabled
    /\ ActiveIn(last.step.integrated) # {}
    /\ LET h == Heaviest(last.step.integrated)
       IN  /\ \E i \in DOMAIN last.step.integrated :
                  /\ i < h
                  /\ Overlap(last.step.integrated, i, h)
                  /\ last.step.integrated[i].mass < last.step.integrated[h].mass
                  /\ ~last.step.collided[i].active
           /\ \E j \in DOMAIN last.step.integrated :
                  /\ h < j
                  /\ Overlap(last.step.integrated, h, j)
                  /\ last.step.integrated[j].mass = last.step.integrated[h].mass
                  /\ ~last.step.collided[j].active
           /\ last.step.collided[h].active

\* the index of the body of that name in a collection that holds it
IndexOf(objs, name) == CHOOSE k \in DOMAIN objs : objs[k].name = name

\* the collection holds a body of that name
HoldsName(objs, name) == \E k \in DOMAIN objs : objs[k].name = name

\* the bodies of old that are in new stand in new in the order they had in old
OrderKept(old, new) ==
    \A i, j \in DOMAIN new :
        (i < j /\ HoldsName(old, new[i].name) /\ HoldsName(old, new[j].name)) =>
            IndexOf(old, new[i].name) < IndexOf(old, new[j].name)

\* C30: every operation keeps the relative order of the bodies that remain in
\* the collection: a step with its collisions and removals, removeObject, and
\* addObject, accepted or rejected.
C30_OrderOfBodiesPreserved ==
    (Stepped \/ last.op \in {"removeObject", "addObject"}) =>
        OrderKept(last.step.pre, m_objects)

\* a step over MaxObjects bodies that deactivated a body in a collision and
\* removed bodies from between bodies that stay
C30_Witness ==
    /\ Stepped
    /\ last.gravityEnabled
    /\ Len(last.step.pre) = MaxObjects
    /\ \E k \in DOMAIN last.step.collided :
           last.step.integrated[k].active /\ ~last.step.collided[k].active
    /\ Len(m_objects) >= 4
    /\ \E j, k \in 2..Len(m_objects) :
           /\ j < k
           /\ last.step.post[j].tag > last.step.post[j - 1].tag + 1
           /\ last.step.post[k].tag > last.step.post[k - 1].tag + 1
    /\ \A k \in DOMAIN m_objects :
           m_objects[k].name = last.step.pre[last.step.post[k].tag].name

====
